---- MODULE Spec2Model ----
(***************************************************************************)
(* A state-machine model of otterwiki/renderer_plugins.py: the footnote    *)
(* extension (per-document Parse State, inline markers, footnotes          *)
(* section), the registration of the extensions into the engine's rule     *)
(* tables, the task-list rewrite of the token tree, and the fancy-block    *)
(* parse function.                                                         *)
(*                                                                         *)
(* Text is modelled as a sequence of one-character strings, so that the    *)
(* regular expressions and the string operations of the code are computed  *)
(* character by character.  A Python tuple is a TLA+ tuple, a dict with     *)
(* string keys a record, an insertion-ordered dict a sequence of           *)
(* [key, text] records with distinct keys.                                 *)
(***************************************************************************)
EXTENDS Integers, Sequences, FiniteSets, TLC

VARIABLES
    def_footnotes,   \* state['def_footnotes']: ordered mapping key -> text
    footnotes,       \* state['footnotes']: keys of the resolved references
    footnote_index,  \* state.get('footnote_index', 0)
    out,             \* the inline footnote matches handled so far, in render
                     \* order: the label matched, the token returned and the
                     \* HTML the renderer made of the token
    section,         \* what md_footnotes_hook added to the result, once it
                     \* has run (done)
    block_rules,     \* md.block.rules
    inline_rules,    \* md.inline.rules
    registered,      \* the extensions whose __call__ has run
    tokens,          \* the token tree handed to task_lists_hook
    prev_tokens,     \* the tree as it was before the latest run of the hook
    passes,          \* how many times the hook has run on the tree
    fb_match,        \* the FANCY_BLOCK match handed to parse_fancy_block
    fb_node          \* the node parse_fancy_block returned

fnVars == <<def_footnotes, footnotes, footnote_index, out, section>>
regVars == <<block_rules, inline_rules, registered>>
taskVars == <<tokens, prev_tokens, passes>>
fancyVars == <<fb_match, fb_node>>
vars == <<def_footnotes, footnotes, footnote_index, out, section,
          block_rules, inline_rules, registered,
          tokens, prev_tokens, passes, fb_match, fb_node>>

(***************************************************************************)
(* Bounds of the model.                                                    *)
(***************************************************************************)
\* parse_inline_footnote calls in one document (several definitions)
MaxRefCalls == 3
\* references to the single definition of a one-definition document
MaxSingleRefs == 28
\* references to an undefined key in a one-definition document
MaxLiterals == 1

(***************************************************************************)
(* Characters and strings.                                                 *)
(***************************************************************************)
\* what the regular expressions' \s matches among the characters used here
Whitespace == {" ", "\t", "\n"}

Lower(c) ==
    CASE c = "A" -> "a"
      [] c = "B" -> "b"
      [] c = "C" -> "c"
      [] OTHER -> c

Last(s) == s[Len(s)]

Front(s) == SubSeq(s, 1, Len(s) - 1)

\* s[i:] of Python, i counted from 0
Drop(s, i) == SubSeq(s, i + 1, Len(s))

RECURSIVE Str(_)
\* str(n) for n >= 0: the decimal digits
Str(n) ==
    LET digit == <<"0", "1", "2", "3", "4", "5", "6", "7", "8", "9">>[(n % 10) + 1]
    IN  IF n < 10 THEN <<digit>> ELSE Str(n \div 10) \o <<digit>>

RECURSIVE UnikeyFrom(_, _, _, _)
UnikeyFrom(s, i, acc, gap) ==
    IF i > Len(s) THEN acc
    ELSE IF s[i] \in Whitespace
         THEN UnikeyFrom(s, i + 1, acc, TRUE)
         ELSE UnikeyFrom(s, i + 1,
                         acc \o (IF gap /\ acc # <<>> THEN <<" ">> ELSE <<>>)
                             \o <<Lower(s[i])>>,
                         FALSE)

\* mistune.util.unikey: ' '.join(s.split()).lower()
Unikey(s) == UnikeyFrom(s, 1, <<>>, FALSE)

(***************************************************************************)
(* Footnote extension: inputs.                                             *)
(***************************************************************************)
\* the labels written between [^ and ] in the documents considered
RawLabels == {<<"a">>, <<"A", " ">>, <<"b">>, <<"c">>}

\* the labels that name the footnote of a one-definition document
SingleLabels == {<<"a">>, <<"A", " ">>}

\* the definition texts (m.group(3)) considered
DefTexts == {<<"t", "1">>, <<"t", "2">>}

(***************************************************************************)
(* The ordered dict def_footnotes.                                         *)
(***************************************************************************)
DefKeys(defs) == {defs[i].key : i \in DOMAIN defs}

\* list(defs.keys()).index(key), counted from 0; key is present
KeyIndex(defs, key) == (CHOOSE i \in DOMAIN defs : defs[i].key = key) - 1

DefText(defs, key) == defs[KeyIndex(defs, key) + 1].text

(***************************************************************************)
(* _letter_from_index                                                      *)
(***************************************************************************)
num2alphadict ==
    <<"a", "b", "c", "d", "e", "f", "g", "h", "i", "j", "k", "l", "m",
      "n", "o", "p", "q", "r", "s", "t", "u", "v", "w", "x", "y", "z">>

\* a faulty variant: numloops computed as num // 26
RECURSIVE letter_from_index_loops(_)
letter_from_index_loops(num) ==
    LET numloops == num \div 26
        remainder == num % 26
        outval == IF numloops > 0 THEN letter_from_index_loops(numloops) ELSE <<>>
    IN  IF remainder > 0
        THEN outval \o <<num2alphadict[remainder]>>
        ELSE outval \o <<"z">>

RECURSIVE letter_from_index(_)
letter_from_index(num) ==
    LET numloops == (num - 1) \div 26
        remainder == num % 26
        outval == IF numloops > 0 THEN letter_from_index(numloops) ELSE <<>>
    IN  IF remainder > 0
        THEN outval \o <<num2alphadict[remainder]>>
        ELSE outval \o <<"z">>

(***************************************************************************)
(* The render functions of the footnote extension.  A piece of HTML is a   *)
(* record of the parts the code concatenates.                              *)
(***************************************************************************)
render_html_footnote_ref(key, index, fn) ==
    LET i == Str(index)
    IN  [tag |-> "sup", id |-> <<"fnref-", i>>, href |-> <<"#fn-", i>>, shown |-> i]

\* the renderer's text method for a 'text' token (the labels used here hold
\* no character that HTML escaping changes)
render_text(text) == [tag |-> "text", text |-> text]

\* the inline parser calls the render function registered for tok[0] with
\* the token's remaining elements, in order, as its arguments
RenderInlineToken(tok) ==
    IF tok[1] = "footnote_ref"
    THEN render_html_footnote_ref(tok[2], tok[3], tok[4])
    ELSE render_text(tok[2])

\* the back-links: each an <a href="#fnref-r"> whose content is the arrow
\* icon (label <<>>) or a letter
BackLinks(refs) ==
    IF Len(refs) = 1
    THEN <<[href |-> <<"#fnref-", Str(refs[1])>>, icon |-> TRUE, label |-> <<>>]>>
    ELSE [i \in 1..Len(refs) |->
             [href |-> <<"#fnref-", Str(refs[i])>>, icon |-> FALSE,
              label |-> letter_from_index(i)]]

render_html_footnote_item(text, key, refs) ==
    [tag |-> "li", id |-> <<"fn-", key>>,
     \* the arrow icon written before the links when there is not one link
     lead_icon |-> (Len(refs) # 1),
     links |-> BackLinks(refs),
     text |-> text]

(***************************************************************************)
(* parse_inline_footnote, parse_def_footnote                               *)
(***************************************************************************)
\* m.group(0) of INLINE_FOOTNOTE_PATTERN for the label m.group(1)
MatchedSource(label) == <<"[", "^">> \o label \o <<"]">>

\* the token parse_inline_footnote returns
InlineToken(label) ==
    LET key == Unikey(label)
    IN  IF def_footnotes = <<>> \/ key \notin DefKeys(def_footnotes)
        THEN <<"text", MatchedSource(label)>>
        ELSE <<"footnote_ref", key, KeyIndex(def_footnotes, key) + 1,
               footnote_index + 1>>

\* a faulty variant: an unresolved reference is counted and recorded too
parse_inline_footnote_counts_all(label) ==
    LET tok == InlineToken(label)
    IN  /\ footnote_index' = footnote_index + 1
        /\ footnotes' = Append(footnotes, Unikey(label))
        /\ out' = Append(out, [label |-> label, tok |-> tok,
                               html |-> RenderInlineToken(tok)])
        /\ UNCHANGED <<def_footnotes, section>>

parse_inline_footnote(label) ==
    LET tok == InlineToken(label)
    IN  /\ IF tok[1] = "text"
           THEN UNCHANGED <<footnote_index, footnotes>>
           ELSE /\ footnote_index' = footnote_index + 1
                /\ footnotes' = Append(footnotes, Unikey(label))
        /\ out' = Append(out, [label |-> label, tok |-> tok,
                               html |-> RenderInlineToken(tok)])
        /\ UNCHANGED <<def_footnotes, section>>

parse_def_footnote(label, text) ==
    LET key == Unikey(label)
    IN  /\ IF key \notin DefKeys(def_footnotes)
           THEN def_footnotes' = Append(def_footnotes, [key |-> key, text |-> text])
           ELSE UNCHANGED def_footnotes
        /\ UNCHANGED <<footnotes, footnote_index, out, section>>

(***************************************************************************)
(* parse_footnote_item, md_footnotes_hook                                  *)
(***************************************************************************)
\* [i + 1 for i, j in enumerate(footnotes) if j == k]
RECURSIVE RefsOf(_, _, _)
RefsOf(fns, k, i) ==
    IF i > Len(fns) THEN <<>>
    ELSE (IF fns[i] = k THEN <<i>> ELSE <<>>) \o RefsOf(fns, k, i + 1)

\* the definition texts used here have one line: the item's child is one
\* paragraph holding the stripped text
parse_footnote_item(k, refs) ==
    [type |-> "footnote_item",
     children |-> <<[type |-> "paragraph", text |-> DefText(def_footnotes, k)]>>,
     params |-> <<k, refs>>]

\* md.block.render of a footnote_item: the render function registered for
\* the type, called with the rendered children and then the params in order
RenderFootnoteItem(node) ==
    render_html_footnote_item(node.children[1].text, node.params[1], node.params[2])

\* a faulty variant: one item per key of footnotes, in order of first reference
RECURSIVE FirstRefs(_, _)
FirstRefs(fns, i) ==
    IF i > Len(fns) THEN <<>>
    ELSE (IF \E j \in 1..(i - 1) : fns[j] = fns[i] THEN <<>> ELSE <<fns[i]>>)
         \o FirstRefs(fns, i + 1)

FootnoteItems_referenced_only ==
    LET ks == FirstRefs(footnotes, 1)
    IN  [n \in 1..Len(ks) |-> parse_footnote_item(ks[n], RefsOf(footnotes, ks[n], 1))]

\* the children md_footnotes_hook collects: for k in state.get('def_footnotes')
FootnoteItems ==
    [n \in 1..Len(def_footnotes) |->
        parse_footnote_item(def_footnotes[n].key,
                            RefsOf(footnotes, def_footnotes[n].key, 1))]

\* a faulty variant: the section is emitted whenever a definition exists
md_footnotes_hook_on_defs ==
    /\ ~section.done
    /\ section' =
          IF def_footnotes = <<>>
          THEN [done |-> TRUE, emitted |-> FALSE, items |-> <<>>]
          ELSE [done |-> TRUE, emitted |-> TRUE,
                items |-> [n \in 1..Len(FootnoteItems) |->
                              RenderFootnoteItem(FootnoteItems[n])]]
    /\ UNCHANGED <<def_footnotes, footnotes, footnote_index, out>>

md_footnotes_hook ==
    /\ ~section.done
    /\ section' =
          IF footnotes = <<>>
          THEN [done |-> TRUE, emitted |-> FALSE, items |-> <<>>]
          ELSE [done |-> TRUE, emitted |-> TRUE,
                items |-> [n \in 1..Len(FootnoteItems) |->
                              RenderFootnoteItem(FootnoteItems[n])]]
    /\ UNCHANGED <<def_footnotes, footnotes, footnote_index, out>>

(***************************************************************************)
(* One document's footnotes.                                               *)
(***************************************************************************)
\* the Parse State mistune makes for a document
InitFootnotes ==
    /\ def_footnotes = <<>>
    /\ footnotes = <<>>
    /\ footnote_index = 0
    /\ out = <<>>
    /\ section = [done |-> FALSE, emitted |-> FALSE, items |-> <<>>]

IdleRegistration ==
    /\ block_rules = <<>>
    /\ inline_rules = <<>>
    /\ registered = {}

IdleTasks ==
    /\ tokens = <<>>
    /\ prev_tokens = <<>>
    /\ passes = 0

IdleFancy ==
    /\ fb_match = [group3 |-> <<>>, group4 |-> [none |-> TRUE, text |-> <<>>]]
    /\ fb_node = [done |-> FALSE]

Init == InitFootnotes /\ IdleRegistration /\ IdleTasks /\ IdleFancy

DefFootnote ==
    \E label \in RawLabels, text \in DefTexts :
        /\ ~section.done
        /\ parse_def_footnote(label, text)
        /\ UNCHANGED <<regVars, taskVars, fancyVars>>

InlineFootnote ==
    \E label \in RawLabels :
        /\ ~section.done
        /\ Len(out) < MaxRefCalls
        /\ parse_inline_footnote(label)
        /\ UNCHANGED <<regVars, taskVars, fancyVars>>

FootnotesHook ==
    /\ md_footnotes_hook
    /\ UNCHANGED <<regVars, taskVars, fancyVars>>

Next == DefFootnote \/ InlineFootnote \/ FootnotesHook

Spec == Init /\ [][Next]_vars

(***************************************************************************)
(* A document with a single footnote definition: the block pass has        *)
(* stored the definition, the references are rendered afterwards.          *)
(***************************************************************************)
InitSingle ==
    /\ \E label \in SingleLabels, text \in DefTexts :
           def_footnotes = <<[key |-> Unikey(label), text |-> text]>>
    /\ footnotes = <<>>
    /\ footnote_index = 0
    /\ out = <<>>
    /\ section = [done |-> FALSE, emitted |-> FALSE, items |-> <<>>]
    /\ IdleRegistration /\ IdleTasks /\ IdleFancy

\* how many of the matches handled so far were left as literal text
Literals == Cardinality({i \in DOMAIN out : out[i].tok[1] = "text"})

\* every reference names the definition; the first match of the document
\* may spell the label in its other form
SingleReference ==
    \E label \in SingleLabels :
        /\ ~section.done
        /\ Len(footnotes) < MaxSingleRefs
        /\ label = <<"a">> \/ out = <<>>
        /\ parse_inline_footnote(label)
        /\ UNCHANGED <<regVars, taskVars, fancyVars>>

UndefinedReference ==
    /\ ~section.done
    /\ Literals < MaxLiterals
    /\ parse_inline_footnote(<<"c">>)
    /\ UNCHANGED <<regVars, taskVars, fancyVars>>

NextSingle == SingleReference \/ UndefinedReference \/ FootnotesHook

SpecSingle == InitSingle /\ [][NextSingle]_vars

(***************************************************************************)
(* Claims about the footnote extension.                                    *)
(***************************************************************************)
\* the number a bijective base-26 numeral denotes: digits a..z worth 1..26
RECURSIVE BijectiveValue(_)
BijectiveValue(s) ==
    IF s = <<>> THEN 0
    ELSE 26 * BijectiveValue(Front(s))
         + (CHOOSE d \in 1..26 : num2alphadict[d] = Last(s))

IsNumeral(s) ==
    /\ s # <<>>
    /\ \A j \in DOMAIN s : \E d \in 1..26 : num2alphadict[d] = s[j]

\* C1: in a document with a single footnote definition and N >= 1 resolved
\* references, the rendered item has exactly N back-links: one unlabeled
\* arrow link when N = 1, and when N > 1 links whose i-th label is the
\* bijective base-26 numeral of i.
C1_BackLinkLabels ==
    (section.emitted /\ Len(def_footnotes) = 1 /\ Len(footnotes) >= 1) =>
        LET item == section.items[1]
            N == Len(footnotes)
        IN  /\ Len(section.items) = 1
            /\ Len(item.links) = N
            /\ N = 1 => /\ item.links[1].icon
                         /\ item.links[1].label = <<>>
                         /\ ~item.lead_icon
            /\ N > 1 => \A i \in 1..N :
                            /\ ~item.links[i].icon
                            /\ IsNumeral(item.links[i].label)
                            /\ BijectiveValue(item.links[i].label) = i

\* witness of C1: an item with more than 26 back-links, the 27th labelled aa
C1_Witness ==
    /\ section.emitted
    /\ Len(def_footnotes) = 1
    /\ Len(footnotes) >= 27
    /\ section.items[1].links[27].label = <<"a", "a">>

\* the keys that have at least one resolved reference
ReferencedKeys == {footnotes[i] : i \in DOMAIN footnotes}

ItemKeys == {section.items[n].id[2] : n \in DOMAIN section.items}

\* C2 as stated: the emitted section has exactly one item per definition
\* with at least one resolved reference and none for an unreferenced
\* definition, so every item has a back-link.
C2_OnlyReferencedItems ==
    section.emitted =>
        /\ ItemKeys = ReferencedKeys
        /\ Len(section.items) = Cardinality(ReferencedKeys)
        /\ \A n \in DOMAIN section.items : Len(section.items[n].links) >= 1

\* C2 amended: the emitted section has exactly one item per definition, in
\* declaration order, referenced or not; an item has one back-link per
\* resolved reference to its key, so none for an unreferenced definition.
C2_OneItemPerDefinition ==
    section.emitted =>
        /\ Len(section.items) = Len(def_footnotes)
        /\ \A n \in DOMAIN section.items :
              /\ section.items[n].id = <<"fn-", def_footnotes[n].key>>
              /\ Len(section.items[n].links)
                    = Cardinality({i \in DOMAIN footnotes :
                                     footnotes[i] = def_footnotes[n].key})

\* witness of C2: a section holding an item for a definition never referenced
C2_Witness ==
    /\ section.emitted
    /\ \E n \in DOMAIN section.items :
          /\ def_footnotes[n].key \notin ReferencedKeys
          /\ section.items[n].links = <<>>

\* the positions in out of the markers (the resolved references)
Markers == {i \in DOMAIN out : out[i].tok[1] = "footnote_ref"}

FirstMarkerOf(i) == \A j \in Markers : j < i => out[j].tok[2] # out[i].tok[2]

\* the number a marker shows, read back from its decimal digits
ShownNumber(i) ==
    CHOOSE n \in 0..(Len(def_footnotes) + Len(out)) : Str(n) = out[i].html.shown

\* C3: the number a marker shows follows the order in which the
\* references are rendered: of two footnotes, the one first referenced
\* earlier shows the smaller number.
C3_NumberedInReferenceOrder ==
    \A i, j \in Markers :
        (i < j /\ FirstMarkerOf(i) /\ FirstMarkerOf(j)) =>
            ShownNumber(i) < ShownNumber(j)

\* C4: every back-link of an emitted item targets the id of exactly one
\* inline marker, that marker refers to the item's key, and no two markers
\* carry the same id.
C4_BackLinksReachMarkers ==
    section.emitted =>
        /\ \A n \in DOMAIN section.items :
              \A l \in DOMAIN section.items[n].links :
                 LET target == section.items[n].links[l].href[2]
                     hit == {i \in Markers : out[i].html.id[2] = target}
                 IN  /\ Cardinality(hit) = 1
                     /\ \A i \in hit : <<"fn-", out[i].tok[2]>> = section.items[n].id
        /\ \A i, j \in Markers : i # j => out[i].html.id # out[j].html.id

\* the matches whose key has no definition
Undefined == {i \in DOMAIN out : Unikey(out[i].label) \notin DefKeys(def_footnotes)}

\* C5 as stated: in every document with a reference to an undefined key
\* the reference is rendered as its source text and no footnotes section
\* is emitted.
C5_NoSectionWithUndefinedKey ==
    (section.done /\ Undefined # {}) =>
        /\ \A i \in Undefined : out[i].html = render_text(MatchedSource(out[i].label))
        /\ ~section.emitted

\* C5 amended: a reference to an undefined key is returned as a text token
\* holding its source, rendered as that text, and leaves footnotes and
\* footnote_index as they were; the section is emitted exactly when some
\* reference resolved, so not when no reference of the document resolved.
C5_LiteralAndSectionOnlyIfResolved ==
    [][/\ (Len(out') = Len(out) + 1
           /\ Unikey(Last(out').label) \notin DefKeys(def_footnotes))
          => /\ Last(out').tok = <<"text", <<"[", "^">> \o Last(out').label \o <<"]">> >>
             /\ Last(out').html = [tag |-> "text", text |-> Last(out').tok[2]]
             /\ footnotes' = footnotes
             /\ footnote_index' = footnote_index
       /\ (section'.done /\ ~section.done)
          => (section'.emitted <=> Markers # {})]_vars

\* witness of C5: the hook has run on a document whose only reference named
\* an undefined key, and emitted nothing
C5_Witness ==
    /\ section.done
    /\ ~section.emitted
    /\ Undefined # {}
    /\ def_footnotes # <<>>

\* C10: footnote_index never decreases; a resolved reference increments it
\* by one and appends its normalized key to footnotes; a definition or an
\* unresolved reference leaves both unchanged; footnote_index stays equal
\* to the length of footnotes.
C10_IndexCountsResolved ==
    /\ [](footnote_index = Len(footnotes))
    /\ [][/\ footnote_index' >= footnote_index
          /\ (Len(out') = Len(out) + 1
              /\ Unikey(Last(out').label) \in DefKeys(def_footnotes))
             => /\ footnote_index' = footnote_index + 1
                /\ footnotes' = footnotes \o <<Unikey(Last(out').label)>>
          /\ (Len(out') = Len(out) + 1
              /\ Unikey(Last(out').label) \notin DefKeys(def_footnotes))
             => (footnote_index' = footnote_index /\ footnotes' = footnotes)
          /\ (def_footnotes' # def_footnotes)
             => (footnote_index' = footnote_index /\ footnotes' = footnotes)]_vars

\* witness of C10: resolved and unresolved references and a definition made
\* after a reference have all been handled
C10_Witness ==
    /\ footnote_index = 2
    /\ Len(out) = 3
    /\ out[1].tok[1] = "text"
    /\ Unikey(out[1].label) \in DefKeys(def_footnotes)

(***************************************************************************)
(* Registration of the extensions: each __call__ puts its rule names into  *)
(* the engine's block and inline rule tables.                              *)
(***************************************************************************)
Range(s) == {s[i] : i \in DOMAIN s}

\* list.index(x), counted from 0: the first position of x.  Python raises
\* ValueError when x is absent, so the callers below require x present.
ListIndex(rules, x) ==
    (CHOOSE i \in DOMAIN rules :
        rules[i] = x /\ \A j \in DOMAIN rules : rules[j] = x => i <= j) - 1

\* list.insert(index, x), index counted from 0
ListInsert(rules, index, x) ==
    SubSeq(rules, 1, index) \o <<x>> \o SubSeq(rules, index + 1, Len(rules))

\* the block rules of the engine other than block_quote, in its order
BaseBlockRules ==
    <<"newline", "thematic_break", "fenced_code", "indent_code", "block_html",
      "list_start", "def_link", "axt_heading", "setex_heading">>

\* the inline rules of the engine that the extensions use as anchors,
\* with their neighbours
BaseInlineRules ==
    <<"escape", "inline_html", "auto_link", "std_link", "ref_link",
      "codespan", "linebreak">>

Extensions ==
    {"footnotes", "task_lists", "mark", "fancy_blocks", "spoiler", "fold", "math"}

\* an engine whose block rule table contains block_quote, at any position
InitRegistration ==
    /\ \E p \in 0..Len(BaseBlockRules) :
           block_rules = ListInsert(BaseBlockRules, p, "block_quote")
    /\ inline_rules = BaseInlineRules
    /\ registered = {}
    /\ InitFootnotes /\ IdleTasks /\ IdleFancy

\* a faulty variant: the rule is put after its anchor, as mistunePluginMark does
InsertAtAnchor_after(rules, anchor, name) ==
    ListInsert(rules, ListIndex(rules, anchor) + 1, name)

\* index = rules.index(anchor); rules.insert(index, name)
InsertAtAnchor(rules, anchor, name) ==
    ListInsert(rules, ListIndex(rules, anchor), name)

mistunePluginFootnotes_call ==
    /\ "footnotes" \notin registered
    /\ "std_link" \in Range(inline_rules)
    /\ "def_link" \in Range(block_rules)
    /\ inline_rules' = InsertAtAnchor(inline_rules, "std_link", "footnote")
    /\ block_rules' = InsertAtAnchor(block_rules, "def_link", "def_footnote")
    /\ registered' = registered \cup {"footnotes"}
    /\ UNCHANGED <<fnVars, taskVars, fancyVars>>

mistunePluginTaskLists_call ==
    /\ "task_lists" \notin registered
    /\ registered' = registered \cup {"task_lists"}
    /\ UNCHANGED <<block_rules, inline_rules, fnVars, taskVars, fancyVars>>

mistunePluginMark_call ==
    /\ "mark" \notin registered
    /\ "codespan" \in Range(inline_rules)
    /\ inline_rules' = ListInsert(inline_rules, ListIndex(inline_rules, "codespan") + 1, "mark")
    /\ registered' = registered \cup {"mark"}
    /\ UNCHANGED <<block_rules, fnVars, taskVars, fancyVars>>

mistunePluginFancyBlocks_call ==
    /\ "fancy_blocks" \notin registered
    /\ block_rules' = Append(block_rules, "fancy_block")
    /\ registered' = registered \cup {"fancy_blocks"}
    /\ UNCHANGED <<inline_rules, fnVars, taskVars, fancyVars>>

mistunePluginSpoiler_call ==
    /\ "spoiler" \notin registered
    /\ "block_quote" \in Range(block_rules)
    /\ block_rules' = InsertAtAnchor(block_rules, "block_quote", "spoiler_block")
    /\ registered' = registered \cup {"spoiler"}
    /\ UNCHANGED <<inline_rules, fnVars, taskVars, fancyVars>>

mistunePluginFold_call ==
    /\ "fold" \notin registered
    /\ "block_quote" \in Range(block_rules)
    /\ block_rules' = InsertAtAnchor(block_rules, "block_quote", "fold_block")
    /\ registered' = registered \cup {"fold"}
    /\ UNCHANGED <<inline_rules, fnVars, taskVars, fancyVars>>

mistunePluginMath_call ==
    /\ "math" \notin registered
    /\ block_rules' = Append(block_rules, "math_block")
    /\ inline_rules' = Append(inline_rules, "math_inline")
    /\ registered' = registered \cup {"math"}
    /\ UNCHANGED <<fnVars, taskVars, fancyVars>>

NextRegistration ==
    \/ mistunePluginFootnotes_call
    \/ mistunePluginTaskLists_call
    \/ mistunePluginMark_call
    \/ mistunePluginFancyBlocks_call
    \/ mistunePluginSpoiler_call
    \/ mistunePluginFold_call
    \/ mistunePluginMath_call

SpecRegistration == InitRegistration /\ [][NextRegistration]_vars

(***************************************************************************)
(* Claims about the registration.                                          *)
(***************************************************************************)
\* C6: once spoiler and fold are registered, in either order and among the
\* other registrations, spoiler_block and fold_block are in the block rule
\* table at positions before block_quote.
C6_SpoilerFoldBeforeQuote ==
    ({"spoiler", "fold"} \subseteq registered) =>
        \A name \in {"spoiler_block", "fold_block"} :
            /\ name \in Range(block_rules)
            /\ \A i, j \in DOMAIN block_rules :
                  (block_rules[i] = name /\ block_rules[j] = "block_quote") => i < j

\* witness of C6: every extension registered, fold before spoiler
C6_Witness ==
    /\ registered = Extensions
    /\ ListIndex(block_rules, "fold_block") < ListIndex(block_rules, "spoiler_block")
    /\ ListIndex(block_rules, "def_footnote") < ListIndex(block_rules, "fold_block")

(***************************************************************************)
(* Task lists: the rewrite of the token tree.  A node is a record; a key   *)
(* a node lacks is absent from the record's domain.                        *)
(***************************************************************************)
\* the nesting depth of the lists in the trees considered
MaxDepth == 2
\* how many times the hook is run on one tree
MaxPasses == 2

Mark(c) == <<"[", c, "]">>

\* the texts of the first children considered
TaskTexts ==
    { Mark(" ") \o <<" ", "a">>,
      Mark("X") \o <<" ", "\t", "a">>,
      Mark(" ") \o <<" ">> \o Mark("x") \o <<" ", "a">>,
      Mark("x"),
      Mark(" ") \o <<" ">>,
      Mark("y") \o <<" ", "a">>,
      <<" ">> \o Mark(" ") \o <<" ", "a">>,
      <<"a">> }

\* the nodes without children: a block_text with its text, a blank_line
\* without one
LeafNodes ==
    {[type |-> "block_text", text |-> t] : t \in TaskTexts}
        \cup {[type |-> "blank_line"]}

ListItem(level, children) ==
    [type |-> "list_item", children |-> children, params |-> <<level>>]

\* the second items of the lists considered
SiblingItems(level) ==
    { ListItem(level, <<>>),
      ListItem(level, <<[type |-> "block_text", text |-> Mark("x") \o <<"\n", "a">>]>>) }

RECURSIVE ListItems(_, _)
RECURSIVE Lists(_, _)
\* the list items with lists nested up to depth d below them
ListItems(d, level) ==
    {ListItem(level, <<>>)}
        \cup {ListItem(level, <<c>>) : c \in LeafNodes}
        \cup (IF d <= 1 THEN {}
              ELSE {ListItem(level, <<c, l>>) : c \in LeafNodes, l \in Lists(d - 1, level + 1)})

Lists(d, level) ==
    {[type |-> "list", children |-> <<i>>, params |-> <<FALSE, level>>] :
        i \in ListItems(d, level)}
        \cup {[type |-> "list", children |-> <<i, j>>, params |-> <<FALSE, level>>] :
                 i \in ListItems(d, level), j \in SiblingItems(level)}

\* a paragraph whose text starts like a checkbox but is no list item
LeadParagraph == [type |-> "paragraph", text |-> Mark(" ") \o <<" ", "a">>]

TokenTrees ==
    {<<l>> : l \in Lists(MaxDepth, 1)}
        \cup {<<LeadParagraph, l>> : l \in Lists(MaxDepth, 1)}

RECURSIVE WhitespaceRun(_, _)
\* how many whitespace characters text holds from position i on, in a row
WhitespaceRun(text, i) ==
    IF i <= Len(text) /\ text[i] \in Whitespace
    THEN 1 + WhitespaceRun(text, i + 1)
    ELSE 0

\* TASK_LIST_ITEM.match(text): ^(\[[ xX]\])\s+
TASK_LIST_ITEM_match(text) ==
    IF /\ Len(text) >= 4
       /\ text[1] = "["
       /\ text[2] \in {" ", "x", "X"}
       /\ text[3] = "]"
       /\ text[4] \in Whitespace
    THEN [matched |-> TRUE, group1 |-> SubSeq(text, 1, 3),
          end |-> 3 + WhitespaceRun(text, 4)]
    ELSE [matched |-> FALSE, group1 |-> <<>>, end |-> 0]

\* a faulty variant: the item keeps its type
rewrite_list_item_keeps_type(item) ==
    LET children == item.children
        first_child == children[1]
        text == IF "text" \in DOMAIN first_child THEN first_child.text ELSE <<>>
        m == TASK_LIST_ITEM_match(text)
    IN  IF children = <<>> \/ ~m.matched THEN item
        ELSE [item EXCEPT
                !.children = [children EXCEPT
                                ![1] = [first_child EXCEPT !.text = Drop(text, m.end)]],
                !.params = <<item.params[1], m.group1 # Mark(" ")>>]

\* _rewrite_list_item: the item after the in-place changes
rewrite_list_item(item) ==
    LET children == item.children
        first_child == children[1]
        text == IF "text" \in DOMAIN first_child THEN first_child.text ELSE <<>>
        m == TASK_LIST_ITEM_match(text)
    IN  IF children = <<>> \/ ~m.matched THEN item
        ELSE [item EXCEPT
                !.type = "task_list_item",
                !.children = [children EXCEPT
                                ![1] = [first_child EXCEPT !.text = Drop(text, m.end)]],
                !.params = <<item.params[1], m.group1 # Mark(" ")>>]

\* a faulty variant: the children are visited only of a node that is no list item
RECURSIVE rewrite_all_list_items_skips_items(_)
rewrite_all_list_items_skips_items(toks) ==
    [n \in DOMAIN toks |->
        IF toks[n].type = "list_item" THEN rewrite_list_item(toks[n])
        ELSE IF "children" \in DOMAIN toks[n]
             THEN [toks[n] EXCEPT
                     !.children = rewrite_all_list_items_skips_items(toks[n].children)]
             ELSE toks[n]]

RECURSIVE rewrite_all_list_items(_)
\* _rewrite_all_list_items: the tokens after the in-place changes
rewrite_all_list_items(toks) ==
    [n \in DOMAIN toks |->
        LET tok == IF toks[n].type = "list_item"
                   THEN rewrite_list_item(toks[n])
                   ELSE toks[n]
        IN  IF "children" \in DOMAIN tok
            THEN [tok EXCEPT !.children = rewrite_all_list_items(tok.children)]
            ELSE tok]

InitTasks ==
    /\ tokens \in TokenTrees
    /\ prev_tokens = <<>>
    /\ passes = 0
    /\ InitFootnotes /\ IdleRegistration /\ IdleFancy

task_lists_hook ==
    /\ passes < MaxPasses
    /\ prev_tokens' = tokens
    /\ tokens' = rewrite_all_list_items(tokens)
    /\ passes' = passes + 1
    /\ UNCHANGED <<fnVars, regVars, fancyVars>>

NextTasks == task_lists_hook

SpecTasks == InitTasks /\ [][NextTasks]_vars

(***************************************************************************)
(* Claims about the task-list rewrite.                                     *)
(***************************************************************************)
\* a list item whose first child's text begins with [ ], [x] or [X]
\* followed by whitespace
HasMarker(node) ==
    /\ node.type = "list_item"
    /\ node.children # <<>>
    /\ "text" \in DOMAIN node.children[1]
    /\ LET t == node.children[1].text
       IN  /\ Len(t) >= 4
           /\ SubSeq(t, 1, 3) \in {Mark(" "), Mark("x"), Mark("X")}
           /\ t[4] \in Whitespace

\* s is t without its marker and the whitespace that follows the marker
StrippedOf(t, s) ==
    \E k \in 4..Len(t) :
        /\ \A j \in 4..k : t[j] \in Whitespace
        /\ k = Len(t) \/ t[k + 1] \notin Whitespace
        /\ s = SubSeq(t, k + 1, Len(t))

RECURSIVE Rewritten(_, _)
\* node n is what the rewrite is to make of node o
Rewritten(o, n) ==
    /\ DOMAIN n = DOMAIN o
    /\ "text" \in DOMAIN o => n.text = o.text
    /\ IF HasMarker(o)
       THEN /\ n.type = "task_list_item"
            /\ n.params = <<o.params[1], o.children[1].text[2] \in {"x", "X"}>>
            /\ Len(n.children) = Len(o.children)
            /\ StrippedOf(o.children[1].text, n.children[1].text)
            /\ Rewritten([o.children[1] EXCEPT !.text = n.children[1].text],
                         n.children[1])
            /\ \A i \in 2..Len(o.children) : Rewritten(o.children[i], n.children[i])
       ELSE /\ n.type = o.type
            /\ "params" \in DOMAIN o => n.params = o.params
            /\ "children" \in DOMAIN o =>
                  /\ Len(n.children) = Len(o.children)
                  /\ \A i \in DOMAIN o.children : Rewritten(o.children[i], n.children[i])

\* C7: running task_lists_hook a second time leaves the tree as the first
\* run made it, also when the text left after a marker begins with another
\* marker.
C7_RewriteIdempotent == passes >= 2 => tokens = prev_tokens

RECURSIVE HoldsLeftoverMarker(_)
\* some task_list_item of the tokens has a first child whose text again
\* begins with a marker followed by whitespace
HoldsLeftoverMarker(toks) ==
    \E n \in DOMAIN toks :
        \/ /\ toks[n].type = "task_list_item"
           /\ TASK_LIST_ITEM_match(toks[n].children[1].text).matched
        \/ /\ "children" \in DOMAIN toks[n]
           /\ HoldsLeftoverMarker(toks[n].children)

\* witness of C7: the hook has run twice on a tree in which the first run
\* left a text that begins with a marker
C7_Witness == passes = 2 /\ HoldsLeftoverMarker(tokens)

\* C8: after the hook every list item, at any depth, whose first child's
\* text began with a marker and whitespace is a task_list_item with the
\* marker and the whitespace removed, its first parameter kept and checked
\* true for x or X and false for a space; every other node is unchanged.
C8_MarkedItemsRewritten ==
    passes = 1 =>
        /\ Len(tokens) = Len(prev_tokens)
        /\ \A n \in DOMAIN tokens : Rewritten(prev_tokens[n], tokens[n])

\* witness of C8: a marked item nested in a marked item was rewritten next
\* to an item without a marker
C8_Witness ==
    /\ passes = 1
    /\ Len(prev_tokens) = 2
    /\ LET outer == prev_tokens[2].children[1]
           new == tokens[2].children[1]
       IN  /\ HasMarker(outer)
           /\ Len(outer.children) = 2
           /\ HasMarker(outer.children[2].children[1])
           /\ new.children[2].children[1].type = "task_list_item"
           /\ new.children[2].children[1].params = <<2, FALSE>>
           /\ Len(prev_tokens[2].children) = 2
           /\ ~HasMarker(prev_tokens[2].children[2])

(***************************************************************************)
(* Fancy blocks: parse_fancy_block on a match of FANCY_BLOCK.              *)
(***************************************************************************)
\* the length of the block bodies considered
MaxBody == 6

FancyChars == {"#", " ", "a", "\n"}

RECURSIVE Strings(_, _)
\* the strings over chars of length up to n
Strings(chars, n) ==
    IF n = 0 THEN {<<>>}
    ELSE LET shorter == Strings(chars, n - 1)
         IN  shorter \cup {Append(t, c) : t \in {u \in shorter : Len(u) = n - 1},
                                          c \in chars}

\* m.group(4): None when the block has no body line, else the body
\* without the newline that ends it
Bodies ==
    {[none |-> TRUE, text |-> <<>>]}
        \cup {[none |-> FALSE, text |-> t] : t \in Strings(FancyChars, MaxBody)}

\* m.group(3): what follows the opening fence on its line
Families == {<<"a">>, <<" ", "A", " ">>}

RECURSIVE Strip(_)
\* str.strip()
Strip(t) ==
    IF t # <<>> /\ t[1] \in Whitespace THEN Strip(Drop(t, 1))
    ELSE IF t # <<>> /\ Last(t) \in Whitespace THEN Strip(Front(t))
    ELSE t

StrLower(t) == [i \in DOMAIN t |-> Lower(t[i])]

RECURSIVE CharRun(_, _, _)
\* how many characters of the set text holds from position i on, in a row
CharRun(text, i, set) ==
    IF i <= Len(text) /\ text[i] \in set
    THEN 1 + CharRun(text, i + 1, set)
    ELSE 0

\* the positions at or after i at which text holds a newline
NewlinesFrom(text, i) == {e \in i..Len(text) : text[e] = "\n"}

Min(S) == CHOOSE x \in S : \A y \in S : x <= y

\* FANCY_BLOCK_HEADER.match(text): ^#{1,5}\s*(.*)\n+ with the regular
\* expression engine's choices: as many # as possible (at most five), then
\* as much whitespace as possible, such that a newline ends the line that
\* starts there; group 1 is that line, the match ends after the newlines
FANCY_BLOCK_HEADER_match(text) ==
    LET hashes == CharRun(text, 1, {"#"})
        tries == {kw \in (1..5) \X (0..Len(text)) :
                     /\ kw[1] <= hashes
                     /\ kw[2] <= CharRun(text, kw[1] + 1, Whitespace)
                     /\ NewlinesFrom(text, kw[1] + kw[2] + 1) # {}}
    IN  IF tries = {} THEN [matched |-> FALSE, group1 |-> <<>>, end |-> 0]
        ELSE LET best == CHOOSE kw \in tries :
                            \A o \in tries :
                                o[1] < kw[1] \/ (o[1] = kw[1] /\ o[2] <= kw[2])
                 start == best[1] + best[2] + 1
                 e == Min(NewlinesFrom(text, start))
             IN  [matched |-> TRUE,
                  group1 |-> SubSeq(text, start, e - 1),
                  end |-> e - 1 + CharRun(text, e, {"\n"})]

\* the header: None, or the text of group 1
NoHeader == [none |-> TRUE, text |-> <<>>]

\* rules = list(block.rules); rules.remove(name): without the first name
ListRemove(rules, name) ==
    LET i == ListIndex(rules, name) + 1
    IN  SubSeq(rules, 1, i - 1) \o SubSeq(rules, i + 1, Len(rules))

\* the node parse_fancy_block returns; its children stand for the call
\* block.parse(text, state, rules) and hold that call's arguments
parse_fancy_block(m) ==
    LET text0 == IF m.group4.none \/ m.group4.text = <<>>
                 THEN <<"\n">>
                 ELSE m.group4.text
        family == StrLower(Strip(m.group3))
        hm == FANCY_BLOCK_HEADER_match(text0)
        header == IF hm.matched THEN [none |-> FALSE, text |-> hm.group1] ELSE NoHeader
        text == IF hm.matched THEN Drop(text0, hm.end) ELSE text0
        rules == ListRemove(ListRemove(block_rules, "axt_heading"), "setex_heading")
    IN  [type |-> "fancy_block",
         params |-> <<family, header>>,
         text |-> text,
         children |-> [parse_text |-> text, parse_rules |-> rules]]

\* the block rule table after the registration of the fancy blocks on the
\* engine's own rules
InitFancy ==
    /\ fb_match \in {[group3 |-> f, group4 |-> b] : f \in Families, b \in Bodies}
    /\ fb_node = [done |-> FALSE]
    /\ block_rules = Append(ListInsert(BaseBlockRules, 4, "block_quote"), "fancy_block")
    /\ inline_rules = BaseInlineRules
    /\ registered = {"fancy_blocks"}
    /\ InitFootnotes /\ IdleTasks

FancyBlock ==
    /\ ~fb_node.done
    /\ fb_node' = [done |-> TRUE, node |-> parse_fancy_block(fb_match)]
    /\ UNCHANGED <<fb_match, fnVars, regVars, taskVars>>

NextFancy == FancyBlock

SpecFancy == InitFancy /\ [][NextFancy]_vars

(***************************************************************************)
(* Claims about the fancy blocks.                                          *)
(***************************************************************************)
\* the body of the block: empty when the block has no body line
BodyText == fb_match.group4.text

\* the first line of a text, and what follows that line's newline
FirstLine(t) ==
    IF NewlinesFrom(t, 1) = {} THEN t ELSE SubSeq(t, 1, Min(NewlinesFrom(t, 1)) - 1)

AfterFirstLine(t) ==
    IF NewlinesFrom(t, 1) = {} THEN <<>> ELSE Drop(t, Min(NewlinesFrom(t, 1)))

\* a heading line of level 1 to 5: one to five #, then the end of the line
\* or a blank and the heading's text
IsHeadingLine(line) ==
    LET n == CharRun(line, 1, {"#"})
    IN  n \in 1..5 /\ (Len(line) = n \/ line[n + 1] = " ")

HeadingText(line) == Strip(Drop(line, CharRun(line, 1, {"#"})))

\* C9: when the first line of the body is a heading of level 1 to 5, also
\* when the body is that line alone, the heading's text is the header
\* parameter and the line is removed from the text that is parsed; when it
\* is not a heading the header is absent and the body is parsed unchanged;
\* the heading rules are not among the rules of the nested parse.
C9_HeadingBecomesHeader ==
    fb_node.done =>
        LET node == fb_node.node
            header == node.params[2]
            parsed == node.children.parse_text
        IN  /\ "axt_heading" \notin Range(node.children.parse_rules)
            /\ "setex_heading" \notin Range(node.children.parse_rules)
            /\ IF IsHeadingLine(FirstLine(BodyText))
               THEN /\ ~header.none
                    /\ header.text = HeadingText(FirstLine(BodyText))
                    /\ \E k \in 0..Len(BodyText) :
                          /\ k <= CharRun(AfterFirstLine(BodyText), 1, {"\n"})
                          /\ parsed = Drop(AfterFirstLine(BodyText), k)
               ELSE /\ header.none
                    /\ parsed = BodyText \/ (BodyText = <<>> /\ parsed = <<"\n">>)

====
